---- MODULE Spec2Model ----
(***************************************************************************)
(* The server-side connection driver of tower-h2 (src/server/mod.rs):      *)
(* Connection::poll with its poll_init / poll_main / poll_goaway steps,    *)
(* and the per-request Background responder.  The h2 engine, the service,  *)
(* the executor and the two start-up futures are the environment: every    *)
(* poll of them answers nondeterministically.                              *)
(***************************************************************************)
EXTENDS Integers, Sequences, FiniteSets, TLC

\* Number of times the caller polls the Connection future.
MaxDrives == 3
\* Number of inbound streams the engine hands out.
MaxStreams == 2
\* How many times the engine answers "not yet closed" to poll_close; a caller
\* whose connection waits for the close is granted that many more drives.
MaxCloseWaits == 1

H2Errors == {"h2a", "h2b"}
InitErrors == {"inita", "initb"}
ServiceErrors == {"svca", "svcb"}

VARIABLES
    state,      \* Connection.state: "Init", "Ready", "GoAway", "Done"
    error,      \* the payload State::GoAway.error, "-" in the other states
    pc,         \* where the driver is inside Connection::poll; "idle" between calls
    rets,       \* what each finished call of Connection::poll returned, in order
    hs,         \* the Handshake future: "pending", "ok" or an h2 error
    ns,         \* the NewService future: "pending", "ok" or an init error
    n,          \* how often each collaborator operation has been invoked
    accepted,   \* how many streams connection.poll() has handed out
    request,    \* the request being dispatched by poll_main, or NoRequest
    serviceSaw, \* the requests handed to service.call, in order
    readyErr,   \* the error service.poll_ready returned, "-" if none yet
    readyRes,   \* the last answer of service.poll_ready, "-" if never asked
    nextRes,    \* the last answer of connection.poll, "-" if never asked
    closeRes,   \* the last answer of connection.poll_close, "-" if never asked
    bg          \* the Background tasks the executor accepted, in spawn order

vars == <<state, error, pc, rets, hs, ns, n, accepted, request, serviceSaw,
          readyErr, readyRes, nextRes, closeRes, bg>>

Ops == {"join", "poll_ready", "next", "modify", "call", "execute",
        "close_connection", "poll_close"}

\* ---- Poll<T, Error<S>> as seen by the caller of Connection::poll ----
NotReady == [tag |-> "NotReady", kind |-> "-", cause |-> "-"]
OkReady == [tag |-> "Ok", kind |-> "-", cause |-> "-"]
Err(kind, cause) == [tag |-> "Err", kind |-> kind, cause |-> cause]

NoRequest == [id |-> 0, mods |-> 0, body |-> "-"]

Bump(op) == [n EXCEPT ![op] = @ + 1]

\* ---- the start-up fork-join ----
\* A join that reports a failure only once both futures have completed.
JoinPollWaitBoth(a, b) ==
    IF a = "pending" \/ b = "pending"
        THEN [tag |-> "NotReady", side |-> "-", cause |-> "-"]
    ELSE IF a \in H2Errors THEN [tag |-> "Err", side |-> "A", cause |-> a]
    ELSE IF b \in InitErrors THEN [tag |-> "Err", side |-> "B", cause |-> b]
    ELSE [tag |-> "Ready", side |-> "-", cause |-> "-"]

\* Join<MapErr<Handshake, A>, MapErr<S::Future, B>>::poll: the handshake is
\* polled first, then the service future; an error of either ends the join.
JoinPoll(a, b) ==
    IF a \in H2Errors THEN [tag |-> "Err", side |-> "A", cause |-> a]
    ELSE IF b \in InitErrors THEN [tag |-> "Err", side |-> "B", cause |-> b]
    ELSE IF a = "ok" /\ b = "ok" THEN [tag |-> "Ready", side |-> "-", cause |-> "-"]
    ELSE [tag |-> "NotReady", side |-> "-", cause |-> "-"]

\* A from_init with the two arms exchanged.
from_init_swapped(e) ==
    IF e.side = "A" THEN Err("NewService", e.cause) ELSE Err("Handshake", e.cause)

\* Error::from_init
from_init(e) ==
    IF e.side = "A" THEN Err("Handshake", e.cause) ELSE Err("NewService", e.cause)

\* Variants of the error hook of poll that do not force Done.
StateAfterErrKeep(s) == s
StateAfterErrRetry(s) == IF s = "GoAway" THEN "Ready" ELSE "Done"

\* ret.map_err(|e| { self.state = State::Done; e })
StateAfterErr(s) == "Done"

\* A call of Connection::poll returns r.
Return(r) ==
    /\ pc' = "idle"
    /\ rets' = Append(rets, r)

\* A call of Connection::poll returns the error e.
ReturnErr(e) ==
    /\ Return(e)
    /\ state' = StateAfterErr(state)
    /\ error' = "-"

Init ==
    /\ state = "Init"
    /\ error = "-"
    /\ pc = "idle"
    /\ rets = <<>>
    /\ hs = "pending"
    /\ ns = "pending"
    /\ n = [op \in Ops |-> 0]
    /\ accepted = 0
    /\ request = NoRequest
    /\ serviceSaw = <<>>
    /\ readyErr = "-"
    /\ readyRes = "-"
    /\ nextRes = "-"
    /\ closeRes = "-"
    /\ bg = <<>>

\* ---- environment: the two start-up futures resolve ----
\* Each resolves on its own, in either order; State::Init owns both, so
\* neither is looked at again once the state has left Init.
HandshakeResolves ==
    /\ state = "Init"
    /\ hs = "pending"
    /\ hs' \in {"ok"} \cup H2Errors
    /\ UNCHANGED <<state, error, pc, rets, ns, n, accepted, request, serviceSaw,
                   readyErr, readyRes, nextRes, closeRes, bg>>

NewServiceResolves ==
    /\ state = "Init"
    /\ ns = "pending"
    /\ ns' \in {"ok"} \cup InitErrors
    /\ UNCHANGED <<state, error, pc, rets, hs, n, accepted, request, serviceSaw,
                   readyErr, readyRes, nextRes, closeRes, bg>>

\* A drive that remembers the suspension at the stream pull and resumes there.
DriveResumesAtPull ==
    /\ pc = "idle"
    /\ Len(rets) < MaxDrives + (IF state = "GoAway" THEN MaxCloseWaits ELSE 0)
    /\ pc' = IF /\ state = "Ready"
                /\ readyRes = "Ready"
                /\ nextRes = "NotReady"
                /\ Len(rets) > 0
                /\ rets[Len(rets)] = NotReady
             THEN "next" ELSE "poll"
    /\ UNCHANGED <<state, error, rets, hs, ns, n, accepted, request, serviceSaw,
                   readyErr, readyRes, nextRes, closeRes, bg>>

\* ---- Connection::poll ----
\* The caller polls the connection.
Drive ==
    /\ pc = "idle"
    /\ Len(rets) < MaxDrives + (IF state = "GoAway" THEN MaxCloseWaits ELSE 0)
    /\ pc' = "poll"
    /\ UNCHANGED <<state, error, rets, hs, ns, n, accepted, request, serviceSaw,
                   readyErr, readyRes, nextRes, closeRes, bg>>

\* A poll_init that drops the joined pair instead of storing State::Ready.
PollInitDropsReady ==
    /\ pc = "poll"
    /\ state = "Init"
    /\ n' = Bump("join")
    /\ LET r == JoinPoll(hs, ns) IN
        \/ /\ r.tag \in {"NotReady", "Ready"}
           /\ Return(NotReady)
           /\ UNCHANGED <<state, error>>
        \/ /\ r.tag = "Err"
           /\ ReturnErr(from_init(r))
    /\ UNCHANGED <<hs, ns, accepted, request, serviceSaw, readyErr, readyRes,
                   nextRes, closeRes, bg>>

\* State::Init(..) => try_ready!(self.poll_init())
PollInit ==
    /\ pc = "poll"
    /\ state = "Init"
    /\ n' = Bump("join")
    /\ LET r == JoinPoll(hs, ns) IN
        \/ /\ r.tag = "NotReady"
           /\ Return(NotReady)
           /\ UNCHANGED <<state, error>>
        \/ /\ r.tag = "Err"
           /\ ReturnErr(from_init(r))
        \/ /\ r.tag = "Ready"
           /\ state' = "Ready"
           /\ UNCHANGED <<error, pc, rets>>
    /\ UNCHANGED <<hs, ns, accepted, request, serviceSaw, readyErr, readyRes,
                   nextRes, closeRes, bg>>

\* A GOAWAY transition that forgets connection.close_connection().
EnterGoAwayNoClose(e, polled) ==
    /\ n' = polled
    /\ state' = "GoAway"
    /\ error' = e
    /\ pc' = "poll"
    /\ UNCHANGED rets

\* ---- poll_main: the dispatch loop of State::Ready ----
\* The transition to GOAWAY after the loop broke with a service error:
\* connection.close_connection(), then State::GoAway { connection, error }.
\* polled is the count of invocations after the probe that failed with e.
EnterGoAway(e, polled) ==
    /\ n' = [polled EXCEPT !["close_connection"] = @ + 1]
    /\ state' = "GoAway"
    /\ error' = e
    /\ pc' = "poll"
    /\ UNCHANGED rets

\* A dispatch loop that pulls the next stream although the service is busy.
PollMainReadyNoBackpressure ==
    /\ pc \in {"poll", "main"}
    /\ state = "Ready"
    /\ \/ /\ n' = Bump("poll_ready")
          /\ readyRes' \in {"Ready", "NotReady"}
          /\ pc' = "next"
          /\ UNCHANGED <<state, error, rets, readyErr>>
       \/ \E e \in ServiceErrors :
            /\ readyErr' = e
            /\ readyRes' = e
            /\ EnterGoAway(e, Bump("poll_ready"))
    /\ UNCHANGED <<hs, ns, accepted, request, serviceSaw, nextRes, closeRes, bg>>

\* service.poll_ready(), at the top of the loop of poll_main.
PollMainReady ==
    /\ pc \in {"poll", "main"}
    /\ state = "Ready"
    /\ \/ /\ n' = Bump("poll_ready")
          /\ readyRes' = "Ready"
          /\ pc' = "next"
          /\ UNCHANGED <<state, error, rets, readyErr>>
       \/ /\ n' = Bump("poll_ready")
          /\ readyRes' = "NotReady"
          /\ Return(NotReady)
          /\ UNCHANGED <<state, error, readyErr>>
       \/ \E e \in ServiceErrors :
            /\ readyErr' = e
            /\ readyRes' = e
            /\ EnterGoAway(e, Bump("poll_ready"))
    /\ UNCHANGED <<hs, ns, accepted, request, serviceSaw, nextRes, closeRes, bg>>

\* A PollMain::Done arm that returns without storing State::Done.
FinishOkKeepState ==
    /\ Return(OkReady)
    /\ UNCHANGED <<state, error>>

\* A PollMain::Done arm that parks the connection instead of finishing.
FinishOkSuspends ==
    /\ Return(NotReady)
    /\ UNCHANGED <<state, error>>

\* PollMain::Done => { self.state = State::Done; return Ok(().into()) }
FinishOk ==
    /\ state' = "Done"
    /\ Return(OkReady)
    /\ UNCHANGED error

\* connection.poll(): the next inbound stream of the engine.
PollMainNext ==
    /\ pc = "next"
    /\ n' = Bump("next")
    /\ \/ /\ nextRes' = "NotReady"
          /\ Return(NotReady)
          /\ UNCHANGED <<state, error, accepted, request>>
       \/ /\ \E p \in H2Errors : nextRes' = p /\ ReturnErr(Err("Protocol", p))
          /\ UNCHANGED <<accepted, request>>
       \/ /\ nextRes' = "None"
          /\ FinishOk
          /\ UNCHANGED <<accepted, request>>
       \/ /\ accepted < MaxStreams
          /\ nextRes' = "Some"
          /\ accepted' = accepted + 1
          /\ request' = [id |-> accepted + 1, mods |-> 0, body |-> "RecvStream"]
          /\ pc' = "modify"
          /\ UNCHANGED <<state, error, rets>>
    /\ UNCHANGED <<hs, ns, serviceSaw, readyErr, readyRes, closeRes, bg>>

\* Modify::modify on the body-less proxy of the request.
modify(req) == [req EXCEPT !.mods = @ + 1]

\* A dispatch that reattaches the body without calling the hook.
ModifyStepSkipped ==
    /\ pc = "modify"
    /\ request' = [request EXCEPT !.body = "RecvBody"]
    /\ pc' = "call"
    /\ UNCHANGED <<state, error, rets, hs, ns, n, accepted, serviceSaw, readyErr,
                   readyRes, nextRes, closeRes, bg>>

\* request.into_parts(); Request::from_parts(parts, ()); self.modify.modify(..);
\* Request::from_parts(parts, RecvBody::new(body))
ModifyStep ==
    /\ pc = "modify"
    /\ n' = Bump("modify")
    /\ LET proxy == [request EXCEPT !.body = "()"]
           parts == modify(proxy)
       IN request' = [parts EXCEPT !.body = "RecvBody"]
    /\ pc' = "call"
    /\ UNCHANGED <<state, error, rets, hs, ns, accepted, serviceSaw, readyErr,
                   readyRes, nextRes, closeRes, bg>>

\* let response = service.call(request)
CallStep ==
    /\ pc = "call"
    /\ n' = Bump("call")
    /\ serviceSaw' = Append(serviceSaw, request)
    /\ pc' = "execute"
    /\ UNCHANGED <<state, error, rets, hs, ns, accepted, request, readyErr,
                   readyRes, nextRes, closeRes, bg>>

\* Background::new(respond, response)
NewBackground ==
    [st |-> "Respond", fut |-> "NotReady", sent |-> <<>>, flush |-> FALSE,
     out |-> "-"]

\* A dispatch loop that ignores the executor's refusal and goes on.
ExecuteRejectedIgnored ==
    /\ pc' = "main"
    /\ UNCHANGED <<state, error, rets, bg>>

\* The executor refused the task: return Err(Error::Execute).
ExecuteRejected ==
    /\ ReturnErr(Err("Execute", "-"))
    /\ UNCHANGED bg

\* A dispatch that submits the task again after the executor refused it.
ExecuteStepRetries ==
    /\ pc = "execute"
    /\ n' = Bump("execute")
    /\ \/ /\ bg' = Append(bg, NewBackground)
          /\ request' = NoRequest
          /\ pc' = "main"
          /\ UNCHANGED <<state, error, rets>>
       \/ UNCHANGED <<state, error, rets, pc, bg, request>>
    /\ UNCHANGED <<hs, ns, accepted, serviceSaw, readyErr, readyRes, nextRes,
                   closeRes>>

\* self.executor.execute(Background::new(respond, response))
ExecuteStep ==
    /\ pc = "execute"
    /\ n' = Bump("execute")
    /\ request' = NoRequest
    /\ \/ /\ bg' = Append(bg, NewBackground)
          /\ pc' = "main"
          /\ UNCHANGED <<state, error, rets>>
       \/ ExecuteRejected
    /\ UNCHANGED <<hs, ns, accepted, serviceSaw, readyErr, readyRes, nextRes,
                   closeRes>>

\* A poll_goaway that discards the close error of the engine.
GoawayResultIgnoringClose(res, e) == Err("Service", e)

\* ---- poll_goaway ----
\* What poll_goaway returns once connection.poll_close() is no longer
\* NotReady: a close error goes through map_err(Error::Protocol) and
\* try_ready!, a clean close gives Err(Error::Service(error)).
GoawayResult(res, e) ==
    IF res = "Ok" THEN Err("Service", e) ELSE Err("Protocol", res)

\* A poll_goaway that keeps waiting after the engine reported the close.
PollGoawayNeverFinishes ==
    /\ pc = "poll"
    /\ state = "GoAway"
    /\ n' = Bump("poll_close")
    /\ \/ /\ n["poll_close"] < MaxCloseWaits
          /\ closeRes' = "NotReady"
          /\ Return(NotReady)
          /\ UNCHANGED <<state, error>>
       \/ /\ closeRes' \in H2Errors
          /\ ReturnErr(GoawayResult(closeRes', error))
       \/ /\ closeRes' = "Ok"
          /\ Return(NotReady)
          /\ UNCHANGED <<state, error>>
    /\ UNCHANGED <<hs, ns, accepted, request, serviceSaw, readyErr, readyRes,
                   nextRes, bg>>

PollGoaway ==
    /\ pc = "poll"
    /\ state = "GoAway"
    /\ n' = Bump("poll_close")
    /\ \/ /\ n["poll_close"] < MaxCloseWaits
          /\ closeRes' = "NotReady"
          /\ Return(NotReady)
          /\ UNCHANGED <<state, error>>
       \/ /\ closeRes' \in H2Errors \cup {"Ok"}
          /\ ReturnErr(GoawayResult(closeRes', error))
    /\ UNCHANGED <<hs, ns, accepted, request, serviceSaw, readyErr, readyRes,
                   nextRes, bg>>

\* State::Done => return Ok(().into())
PollDone ==
    /\ pc = "poll"
    /\ state = "Done"
    /\ Return(OkReady)
    /\ UNCHANGED <<state, error, hs, ns, n, accepted, request, serviceSaw,
                   readyErr, readyRes, nextRes, closeRes, bg>>

\* ---- Background::poll, run by the executor ----
\* What response.poll() can answer: not ready, failed, or a response whose
\* body is ("Eos") or is not ("Body") at its end of stream.
FutAnswers == {"NotReady", "Err", "Eos", "Body"}
FlushAnswers == {"NotReady", "Ok", "Err"}

\* respond.send_reset(Reason::INTERNAL_ERROR)
SendReset(b) ==
    [b EXCEPT !.sent = Append(@, [op |-> "send_reset",
                                  arg |-> "INTERNAL_ERROR", ok |-> TRUE])]

\* respond.send_response(response, end_stream), answering Ok or Err
SendResponse(b, eos, ok) ==
    [b EXCEPT !.sent = Append(@, [op |-> "send_response",
                                  arg |-> eos, ok |-> ok])]

\* Background::poll returns Ok(Ready) or Err: the executor drops the task.
Finished(b, out) == [b EXCEPT !.st = "Returned", !.out = out]

\* flush::Flush::poll answering fl
FlushPoll(b, fl) == IF fl = "NotReady" THEN b ELSE Finished(b, fl)

\* Flush::new(body, stream); self.state = Flush(flush)
EnterFlush(b) == [b EXCEPT !.st = "Flush", !.flush = TRUE]

\* A failed response that is dropped without resetting the stream.
RespondFailedSilently(b) == Finished(b, "Err")

\* response.poll() failed: the map_err closure resets the stream and
\* try_ready! returns Err(()).
RespondFailed(b) == Finished(SendReset(b), "Err")

\* A header failure that resets the stream before giving up.
HeaderFailedResets(b) == Finished(SendReset(b), "Ok")

\* send_response failed: return Ok(().into())
HeaderFailed(b) == Finished(b, "Ok")

\* A header arm that flushes the body whatever the end-of-stream flag.
HeaderSentAlwaysFlushes(b, eos, fl) == FlushPoll(EnterFlush(b), fl)

\* send_response succeeded: done at end of stream, else flush the body; the
\* loop polls the new Flush in the same call.
HeaderSent(b, eos, fl) ==
    IF eos THEN Finished(b, "Ok") ELSE FlushPoll(EnterFlush(b), fl)

\* One call of Background::poll in the Respond state: response.poll()
\* answers fut, send_response answers sendOk, flush.poll() answers fl.
RespondPoll(b, fut, sendOk, fl) ==
    LET b1 == [b EXCEPT !.fut = fut] IN
    IF fut = "NotReady" THEN b1
    ELSE IF fut = "Err" THEN RespondFailed(b1)
    ELSE LET eos == (fut = "Eos")
             b2 == SendResponse(b1, eos, sendOk)
         IN IF sendOk THEN HeaderSent(b2, eos, fl) ELSE HeaderFailed(b2)

\* A responder whose failure also ends the connection.
BackgroundPollPoisons(i) ==
    /\ bg[i].st \in {"Respond", "Flush"}
    /\ \E a \in {<<"Err", TRUE, "NotReady">>, <<"Eos", FALSE, "NotReady">>} :
          bg' = [bg EXCEPT ![i] = IF @.st = "Respond"
                                     THEN RespondPoll(@, a[1], a[2], a[3])
                                     ELSE FlushPoll(@, "Err")]
    /\ state' = "Done"
    /\ UNCHANGED <<error, pc, rets, hs, ns, n, accepted, request,
                   serviceSaw, readyErr, readyRes, nextRes, closeRes>>

\* Responders that the executor runs strictly in spawn order.
BackgroundPollInOrder(i) ==
    /\ bg[i].st \in {"Respond", "Flush"}
    /\ \A j \in 1..(i - 1) : bg[j].st = "Returned"
    /\ \E fut \in FutAnswers, sendOk \in BOOLEAN, fl \in FlushAnswers :
          bg' = [bg EXCEPT ![i] = IF @.st = "Respond"
                                     THEN RespondPoll(@, fut, sendOk, fl)
                                     ELSE FlushPoll(@, fl)]
    /\ UNCHANGED <<state, error, pc, rets, hs, ns, n, accepted, request,
                   serviceSaw, readyErr, readyRes, nextRes, closeRes>>

\* The answers one call of Background::poll asks for: a collaborator that
\* the call does not reach gets a fixed answer.
Answers(b) ==
    IF b.st = "Flush"
        THEN {<<"NotReady", TRUE, fl>> : fl \in FlushAnswers}
    ELSE {<<fut, TRUE, "NotReady">> : fut \in FutAnswers}
         \cup {<<fut, FALSE, "NotReady">> : fut \in {"Eos", "Body"}}
         \cup {<<"Body", TRUE, fl>> : fl \in FlushAnswers}

BackgroundPoll(i) ==
    /\ bg[i].st \in {"Respond", "Flush"}
    /\ \E a \in Answers(bg[i]) :
          bg' = [bg EXCEPT ![i] = IF @.st = "Respond"
                                     THEN RespondPoll(@, a[1], a[2], a[3])
                                     ELSE FlushPoll(@, a[3])]
    /\ UNCHANGED <<state, error, pc, rets, hs, ns, n, accepted, request,
                   serviceSaw, readyErr, readyRes, nextRes, closeRes>>

Next ==
    \/ HandshakeResolves
    \/ NewServiceResolves
    \/ Drive
    \/ PollInit
    \/ PollMainReady
    \/ PollMainNext
    \/ ModifyStep
    \/ CallStep
    \/ ExecuteStep
    \/ PollGoaway
    \/ PollDone
    \/ \E i \in 1..Len(bg) : BackgroundPoll(i)

Spec == Init /\ [][Next]_vars

\* One call of Connection::poll runs to its return once the caller made it.
ConnectionStep ==
    \/ PollInit
    \/ PollMainReady
    \/ PollMainNext
    \/ ModifyStep
    \/ CallStep
    \/ ExecuteStep
    \/ PollGoaway
    \/ PollDone

\* The steps of the connection and of the futures it waits for. The polls of
\* the spawned responders are left to Next: a responder and the connection
\* share no state, so no step of a responder enables, disables or changes a
\* step of the connection.
LiveNext ==
    \/ HandshakeResolves
    \/ NewServiceResolves
    \/ Drive
    \/ ConnectionStep

\* The connection keeps being driven by its task, and a call of poll that
\* was entered returns.
LiveSpec ==
    Init /\ [][LiveNext]_vars /\ WF_vars(Drive) /\ WF_vars(ConnectionStep)

\* ======================= properties =======================
Rank(s) == CASE s = "Init" -> 0 [] s = "Ready" -> 1 [] s = "GoAway" -> 2 [] s = "Done" -> 3

\* Some call of Connection::poll has returned something other than NotReady.
HasTerminal == \E i \in 1..Len(rets) : rets[i].tag # "NotReady"

\* The first terminal result the caller received.
Result ==
    rets[CHOOSE i \in 1..Len(rets) :
            /\ rets[i].tag # "NotReady"
            /\ \A j \in 1..(i - 1) : rets[j].tag = "NotReady"]

Last(q) == q[Len(q)]

DispatchOps == {"poll_ready", "next", "modify", "call", "execute"}

\* C1 as stated: after a readiness error E the terminal result is
\* Error::Service(E), whatever poll_close reported while closing.
C1_ServiceErrorAlwaysSurfaced ==
    (readyErr # "-" /\ HasTerminal) => Result = Err("Service", readyErr)

\* C1 amended: after a readiness error E the terminal result is
\* Error::Service(E) when poll_close reported a clean close, and
\* Error::Protocol(P) when poll_close reported the error P.
C1_TerminalAfterGoAway ==
    (readyErr # "-" /\ HasTerminal) =>
        /\ closeRes \in H2Errors \cup {"Ok"}
        /\ state = "Done"
        /\ Result = IF closeRes = "Ok" THEN Err("Service", readyErr)
                    ELSE Err("Protocol", closeRes)

C1_Witness ==
    /\ readyErr = "svcb"
    /\ closeRes = "Ok"
    /\ state = "Done"
    /\ rets = <<NotReady, Err("Service", "svcb")>>

\* C2: a readiness error in Ready calls close_connection once, in the same
\* call of poll and without returning first, stores the error and enters
\* GoAway; close_connection is called at no other time, and afterwards the
\* stream pull, poll_ready, the Modify hook, service.call and the executor
\* are never invoked again.
C2_GracefulShutdownOnce ==
    /\ [](n["close_connection"] = IF readyErr = "-" THEN 0 ELSE 1)
    /\ [][/\ (readyErr = "-" /\ readyErr' # "-") =>
                /\ state = "Ready"
                /\ state' = "GoAway"
                /\ error' = readyErr'
                /\ n'["close_connection"] = n["close_connection"] + 1
                /\ rets' = rets
                /\ pc' # "idle"
          /\ readyErr # "-" =>
                /\ \A op \in DispatchOps : n'[op] = n[op]
                /\ accepted' = accepted
                /\ Len(bg') = Len(bg)
                /\ readyErr' = readyErr]_vars

C2_Witness ==
    /\ state = "Done"
    /\ readyErr # "-"
    /\ n["close_connection"] = 1
    /\ n["poll_close"] = 2
    /\ accepted = 1

\* C3: the state only moves forward along Init, Ready, GoAway, Done;
\* GoAway is entered only from Ready and Done is never left.
C3_ForwardOnly ==
    [][/\ Rank(state) <= Rank(state')
       /\ (state' = "GoAway" /\ state # "GoAway") => state = "Ready"
       /\ state = "Done" => state' = "Done"]_vars

C3_Witness ==
    /\ state = "Done"
    /\ closeRes = "Ok"
    /\ Len(rets) = 3

\* C4: when a call of poll returns an Error the state is Done.
C4_ErrorForcesDone ==
    (pc = "idle" /\ rets # <<>> /\ Last(rets).tag = "Err") => state = "Done"

C4_Witness ==
    /\ pc = "idle"
    /\ rets # <<>>
    /\ Last(rets).tag = "Err"
    /\ Last(rets).kind = "Protocol"
    /\ readyErr # "-"

\* C5: after a terminal result every later call of poll returns Ok(Ready)
\* and invokes no collaborator; at most one call returns an Error.
C5_DoneIsNoOp ==
    /\ [](Cardinality({i \in 1..Len(rets) : rets[i].tag = "Err"}) <= 1)
    /\ [][HasTerminal =>
            /\ n' = n
            /\ accepted' = accepted
            /\ serviceSaw' = serviceSaw
            /\ Len(bg') = Len(bg)
            /\ state' = "Done"
            /\ rets' # rets => rets' = Append(rets, OkReady)]_vars

C5_Witness ==
    /\ Len(rets) = 3
    /\ rets[1].tag = "Err"
    /\ rets[2] = OkReady
    /\ rets[3] = OkReady

\* C6 as stated: if service instantiation fails with cause E the final
\* result is Error::NewService(E), the state is Done and nothing was
\* dispatched, also when the handshake fails too.
C6_NewServiceAlwaysReported ==
    (ns \in InitErrors /\ HasTerminal) =>
        /\ Result = Err("NewService", ns)
        /\ state = "Done"
        /\ n["call"] = 0 /\ n["execute"] = 0

\* C6 amended: if service instantiation fails with cause E the connection
\* never becomes Ready and dispatches nothing, and its final result leaves
\* it Done; that result is Error::NewService(E) unless the handshake has
\* failed too by the poll that observes the failure: the join polls the
\* handshake first, and the result is then Error::Handshake.
C6_NewServiceFailure ==
    ns \in InitErrors =>
        /\ state \in {"Init", "Done"}
        /\ n["call"] = 0 /\ n["execute"] = 0 /\ bg = <<>>
        /\ HasTerminal =>
            /\ state = "Done"
            /\ Result = IF hs \in H2Errors THEN Err("Handshake", hs)
                        ELSE Err("NewService", ns)

C6_Witness ==
    /\ ns = "initb"
    /\ hs = "pending"
    /\ state = "Done"
    /\ rets = <<NotReady, Err("NewService", "initb")>>

\* C7: Init is left for Ready only by a poll of the join that finds both
\* the handshake and the service ready; a poll that finds a failure ends
\* the call with it, Error::Handshake for the handshake (polled first) and
\* Error::NewService for the instantiation, also while the other future is
\* still pending; otherwise the call suspends in Init.
C7_ForkJoin ==
    [][/\ (state = "Init" /\ state' # "Init") => n'["join"] = n["join"] + 1
       /\ n'["join"] = n["join"] + 1 =>
            /\ state = "Init"
            /\ hs \in H2Errors =>
                 rets' = Append(rets, Err("Handshake", hs)) /\ state' = "Done"
            /\ (hs \notin H2Errors /\ ns \in InitErrors) =>
                 rets' = Append(rets, Err("NewService", ns)) /\ state' = "Done"
            /\ state' = "Ready" <=> (hs = "ok" /\ ns = "ok")
            /\ (hs \notin H2Errors /\ ns \notin InitErrors
                    /\ "pending" \in {hs, ns}) =>
                 rets' = Append(rets, NotReady) /\ state' = "Init"]_vars

C7_Witness ==
    /\ hs = "pending"
    /\ ns = "inita"
    /\ state = "Done"
    /\ rets = <<Err("NewService", "inita")>>

\* C8: the poll of the join that finds both futures ready moves Init to
\* Ready in that same call, and the state is never Init again.
C8_InitLeftOnce ==
    [][/\ state # "Init" => state' # "Init"
       /\ (n'["join"] = n["join"] + 1 /\ hs = "ok" /\ ns = "ok") =>
            state = "Init" /\ state' = "Ready"
       /\ (state = "Init" /\ state' = "Ready") =>
            n'["join"] = n["join"] + 1 /\ n["poll_ready"] = 0]_vars

C8_Witness ==
    /\ state = "Ready"
    /\ n["join"] = 2
    /\ accepted = 1
    /\ Len(rets) = 2

\* C9: each accepted request gets the Modify hook exactly once, in the call
\* of poll that accepted it and before service.call; the hook runs for
\* nothing else, and the service sees the request as the hook left it with
\* its body reattached.
C9_ModifyOncePerRequest ==
    /\ n["modify"] = accepted - (IF pc = "modify" THEN 1 ELSE 0)
    /\ n["call"] = n["modify"] - (IF pc = "call" THEN 1 ELSE 0)
    /\ Len(serviceSaw) = n["call"]
    /\ pc \in {"modify", "call", "execute"} => request.id = accepted
    /\ \A i \in 1..Len(serviceSaw) :
          serviceSaw[i] = [id |-> i, mods |-> 1, body |-> "RecvBody"]

C9_Witness ==
    /\ pc = "idle"
    /\ accepted = 2
    /\ n["modify"] = 2
    /\ Len(serviceSaw) = 2
    /\ Len(rets) = 1

\* C10: when the executor refuses the responder of request N the call of
\* poll returns Error::Execute at once and the state is Done; no probe,
\* stream pull, dispatch or close_connection follows, whatever the
\* responders of the earlier requests are doing.
C10_ExecuteRejectionFatal ==
    /\ [](n["execute"] > Len(bg) =>
            /\ n["execute"] = Len(bg) + 1
            /\ state = "Done"
            /\ HasTerminal
            /\ Result = Err("Execute", "-")
            /\ n["close_connection"] = 0
            /\ n["poll_close"] = 0)
    /\ [][n["execute"] > Len(bg) =>
            /\ n' = n
            /\ accepted' = accepted
            /\ Len(bg') = Len(bg)]_vars
    /\ [][(n'["execute"] = n["execute"] + 1 /\ Len(bg') = Len(bg)) =>
            rets' = Append(rets, Err("Execute", "-")) /\ pc' = "idle"]_vars

C10_Witness ==
    /\ n["execute"] = 2
    /\ Len(bg) = 1
    /\ bg[1].st = "Respond"
    /\ state = "Done"
    /\ Last(rets) = Err("Execute", "-")

\* ---- the Background responder ----
ResetFrame == [op |-> "send_reset", arg |-> "INTERNAL_ERROR", ok |-> TRUE]
HeaderCall(eos, ok) == [op |-> "send_response", arg |-> eos, ok |-> ok]
Responders == 1..Len(bg)
ConnVars == <<state, error, pc, rets, n, accepted, request, serviceSaw>>

\* C11: a responder whose response future failed has made one call on its
\* response channel, send_reset(INTERNAL_ERROR), has sent no header, never
\* entered Flush and is finished; the step in which it fails leaves the
\* connection and what poll has returned untouched.
C11_ResponseFailureResets ==
    /\ [](\A i \in Responders :
            bg[i].fut = "Err" =>
                /\ bg[i].sent = <<ResetFrame>>
                /\ ~bg[i].flush
                /\ bg[i].st = "Returned")
    /\ [][\A i \in Responders :
            (bg[i].fut # "Err" /\ bg'[i].fut = "Err") =>
                /\ bg[i].st = "Respond"
                /\ bg[i].sent = <<>>
                /\ UNCHANGED ConnVars]_vars

C11_Witness ==
    /\ Len(bg) = 1
    /\ bg[1].fut = "Err"
    /\ bg[1].sent = <<ResetFrame>>
    /\ state = "Ready"
    /\ rets = <<NotReady>>

\* C12: a responder whose response arrived with its body at end of stream
\* has called send_response once, with the end-of-stream flag set, and
\* nothing else: it is finished with Ok, never entered Flush and sent no
\* reset.  The one call is the one header frame when the engine took it.
C12_EndOfStreamHeaderOnly ==
    \A i \in Responders :
        bg[i].fut = "Eos" =>
            /\ bg[i].sent \in {<<HeaderCall(TRUE, ok)>> : ok \in BOOLEAN}
            /\ ~bg[i].flush
            /\ bg[i].st = "Returned"
            /\ bg[i].out = "Ok"

C12_Witness ==
    /\ Len(bg) = 1
    /\ bg[1].fut = "Eos"
    /\ bg[1].sent = <<HeaderCall(TRUE, TRUE)>>
    /\ bg[1].st = "Returned"

\* Responder i called send_response and the engine refused the header.
HeaderFailedAt(i) ==
    \E k \in 1..Len(bg[i].sent) : bg[i].sent[k].op = "send_response" /\ ~bg[i].sent[k].ok

\* Responder i has sent a stream reset.
ResetSentBy(i) == \E k \in 1..Len(bg[i].sent) : bg[i].sent[k] = ResetFrame

\* Every step of the dispatch loop that the driver has reached can be taken,
\* with the outcome that moves the dispatch on.
DispatchCanProceed ==
    /\ (pc = "idle" /\ Len(rets) < MaxDrives) => ENABLED Drive
    /\ (state = "Ready" /\ pc \in {"poll", "main"}) =>
            ENABLED (PollMainReady /\ pc' = "next")
    /\ (pc = "next" /\ accepted < MaxStreams) =>
            ENABLED (PollMainNext /\ accepted' = accepted + 1)
    /\ pc = "modify" => ENABLED ModifyStep
    /\ pc = "call" => ENABLED CallStep
    /\ pc = "execute" => ENABLED (ExecuteStep /\ Len(bg') = Len(bg) + 1)

\* A step of a responder: the executor spawned none, one of them moved.
ResponderStep == Len(bg') = Len(bg) /\ bg' # bg

\* C13 as stated: a response-future failure and a header-send failure are
\* both reported to the peer as a stream reset.
C13_EveryFailureResets ==
    \A i \in Responders :
        (bg[i].fut = "Err" \/ HeaderFailedAt(i)) => ResetSentBy(i)

\* C13 amended: a response-future failure is reported to the peer as one
\* stream reset and a header-send failure is not reported at all (nothing
\* further is called on the channel); no step of a responder changes the
\* connection's state, its drive results or its dispatch counters, and with
\* failed responders around the dispatch loop can still take every step.
C13_FailuresIsolated ==
    /\ [](\A i \in Responders :
            /\ bg[i].fut = "Err" => bg[i].sent = <<ResetFrame>>
            /\ HeaderFailedAt(i) =>
                 /\ Len(bg[i].sent) = 1
                 /\ ~ResetSentBy(i)
                 /\ bg[i].st = "Returned")
    /\ []((\E i \in Responders : bg[i].fut = "Err" \/ HeaderFailedAt(i)) =>
            DispatchCanProceed)
    /\ [][ResponderStep =>
            UNCHANGED <<ConnVars, readyErr, readyRes, nextRes, closeRes>>]_vars

C13_Witness ==
    /\ Len(bg) = 2
    /\ HeaderFailedAt(1)
    /\ bg[2].fut = "Err"
    /\ state = "Ready"
    /\ pc = "next"
    /\ rets = <<NotReady>>

\* The step on which the engine reports the clean end of inbound streams.
CleanEndStep == nextRes' = "None" /\ n'["next"] = n["next"] + 1

\* C14: when the engine reports a clean end of inbound streams (the state is
\* Ready and the probe of this drive call said ready), that drive call
\* returns Ok(Ready) and the state becomes Done; close_connection is not
\* called, then or ever on that connection, and the responders in flight,
\* whatever their number and state, neither matter nor are touched.
C14_CleanEndFinishes ==
    /\ [][CleanEndStep =>
            /\ state = "Ready"
            /\ readyRes = "Ready"
            /\ state' = "Done"
            /\ rets' = Append(rets, OkReady)
            /\ pc' = "idle"
            /\ n'["close_connection"] = n["close_connection"]
            /\ bg' = bg]_vars
    /\ [](nextRes = "None" =>
            /\ state = "Done"
            /\ n["close_connection"] = 0
            /\ Result = OkReady)
    /\ []((state = "Ready" /\ pc = "next") => ENABLED (PollMainNext /\ CleanEndStep))

C14_Witness ==
    /\ nextRes = "None"
    /\ state = "Done"
    /\ Last(rets) = OkReady
    /\ Len(bg) = 2
    /\ bg[1].st = "Respond"
    /\ bg[2].st = "Flush"

\* The last drive call suspended at the stream pull: the probe of that call
\* said ready, connection.poll() said NotReady, and the drive returned NotReady.
SuspendedAtPull ==
    /\ state = "Ready"
    /\ pc \in {"idle", "poll"}
    /\ readyRes = "Ready"
    /\ nextRes = "NotReady"
    /\ Len(rets) > 0
    /\ Last(rets) = NotReady

\* C15 as stated: a drive call that resumes a suspension at the stream pull first pulls
\* from the engine: it does not invoke the readiness probe before the pull,
\* and it does not move to GoAway.
C15_ResumeAtPull ==
    [][(SuspendedAtPull /\ pc = "poll" /\ ConnVars' # ConnVars) =>
          /\ n'["next"] = n["next"] + 1
          /\ n'["poll_ready"] = n["poll_ready"]
          /\ state' # "GoAway"]_vars

\* An invocation of service.poll_ready() on this step.
ProbeStep == n'["poll_ready"] = n["poll_ready"] + 1

\* C16: the engine is asked for a stream only right after a probe of the
\* same drive call said ready (pc "next" is entered by a ready probe only and
\* left by the pull); a probe that says not-ready suspends the drive with the
\* state still Ready and nothing pulled, modified, called or submitted; and a
\* service.call is reached only through pull and modify from its own ready
\* probe, so after a call the next call needs a new ready probe.
C16_AcceptanceBackpressure ==
    /\ [](pc \in {"next", "modify", "call"} => readyRes = "Ready" /\ state = "Ready")
    /\ [](n["call"] <= n["next"] /\ n["next"] <= n["poll_ready"])
    /\ [][n'["next"] # n["next"] => pc = "next"]_vars
    /\ [][(pc' = "next" /\ pc # "next") =>
            pc \in {"poll", "main"} /\ ProbeStep /\ readyRes' = "Ready"]_vars
    /\ [][(pc' = "modify" /\ pc # "modify") => pc = "next"]_vars
    /\ [][(pc' = "call" /\ pc # "call") => pc = "modify"]_vars
    /\ [][n'["call"] # n["call"] => pc = "call" /\ pc' = "execute"]_vars
    /\ [][pc = "execute" => pc' \in {"execute", "main", "idle"}]_vars
    /\ [][(ProbeStep /\ readyRes' = "NotReady") =>
            /\ state' = "Ready"
            /\ rets' = Append(rets, NotReady)
            /\ pc' = "idle"
            /\ \A op \in Ops \ {"poll_ready"} : n'[op] = n[op]
            /\ accepted' = accepted
            /\ serviceSaw' = serviceSaw
            /\ bg' = bg]_vars

C16_Witness ==
    /\ readyRes = "NotReady"
    /\ pc = "idle"
    /\ state = "Ready"
    /\ n["poll_ready"] = 2
    /\ n["call"] = 1
    /\ Len(bg) = 1
    /\ rets = <<NotReady>>

\* C15 amended: a drive call that resumes a suspension at the stream pull
\* enters poll_main at its top: its first step is a new readiness probe and
\* not a pull; a ready probe leads to the pull, a not-ready probe suspends
\* the drive again with nothing pulled, and a probe error stores the error,
\* signals graceful shutdown and moves to GoAway.
C15_ResumeRestartsLoop ==
    /\ [][(SuspendedAtPull /\ pc = "idle" /\ ConnVars' # ConnVars) =>
            pc' = "poll" /\ n' = n /\ state' = state /\ rets' = rets]_vars
    /\ [][(SuspendedAtPull /\ pc = "poll" /\ ConnVars' # ConnVars) =>
            /\ ProbeStep
            /\ \A op \in Ops \ {"poll_ready", "close_connection"} : n'[op] = n[op]
            /\ \/ /\ readyRes' = "Ready"
                  /\ pc' = "next"
                  /\ state' = "Ready"
                  /\ rets' = rets
               \/ /\ readyRes' = "NotReady"
                  /\ pc' = "idle"
                  /\ state' = "Ready"
                  /\ rets' = Append(rets, NotReady)
               \/ /\ readyRes' \in ServiceErrors
                  /\ state' = "GoAway"
                  /\ error' = readyRes'
                  /\ n'["close_connection"] = n["close_connection"] + 1
                  /\ rets' = rets]_vars

C15_Witness ==
    /\ state = "GoAway"
    /\ rets = <<NotReady>>
    /\ nextRes = "NotReady"
    /\ readyRes = "svca"
    /\ n["poll_ready"] = 2
    /\ n["next"] = 1
    /\ accepted = 0

\* The result poll_goaway hands out for the stored error and the engine's
\* answer to poll_close, as the drive that ended the connection returned it.
GoAwayOutcome ==
    IF closeRes = "Ok" THEN Err("Service", readyErr) ELSE Err("Protocol", closeRes)

\* C17 as stated: when the second readiness probe failed, the first request
\* has its responder, no further request was accepted, and the terminal
\* result is Service(E).
C17_SecondProbeSurfacesService ==
    (readyErr # "-" /\ n["poll_ready"] = 2 /\ HasTerminal) =>
        /\ accepted = 1
        /\ Len(bg) = 1
        /\ Result = Err("Service", readyErr)

\* C17 amended: a connection in GoAway that keeps being driven reaches Done
\* with a terminal drive result, and accepts and spawns nothing on the way;
\* when the probe that failed is the one after the first dispatched request,
\* that request's responder was spawned before the failure, no further
\* request is accepted, and the terminal result is Service(E) after a clean
\* close and Protocol(P) when the engine reported P while closing.
C17_GoAwayTerminates ==
    /\ (state = "GoAway") ~> (state = "Done" /\ HasTerminal)
    /\ [](state = "GoAway" => error = readyErr /\ error \in ServiceErrors /\ ~HasTerminal)
    /\ [][state = "GoAway" =>
            /\ accepted' = accepted
            /\ Len(bg') = Len(bg)
            /\ state' \in {"GoAway", "Done"}]_vars
    /\ []((readyErr # "-" /\ accepted = 1) =>
            /\ Len(bg) = 1
            /\ n["call"] = 1
            /\ n["execute"] = 1
            /\ n["poll_ready"] >= 2
            /\ HasTerminal => (state = "Done" /\ Result = GoAwayOutcome))

C17_Witness ==
    /\ readyErr = "svca"
    /\ n["poll_ready"] = 2
    /\ accepted = 1
    /\ Len(bg) = 1
    /\ n["poll_close"] = MaxCloseWaits + 1
    /\ closeRes = "Ok"
    /\ state = "Done"
    /\ Last(rets) = Err("Service", "svca")

\* The positions of the calls of op in the log of responder i.
CallsOf(i, op) == {k \in 1..Len(bg[i].sent) : bg[i].sent[k].op = op}

\* C18: a responder whose send_response failed completes on that very poll
\* with Ok(Ready): its log is that one failed call (no retry, no reset), it
\* never entered the Flush phase and its outcome is not an error; and every
\* responder calls send_response at most once and never both send_reset and
\* send_response.
C18_HeaderFailureAbandoned ==
    /\ [](\A i \in Responders :
            /\ Cardinality(CallsOf(i, "send_response")) <= 1
            /\ CallsOf(i, "send_reset") = {} \/ CallsOf(i, "send_response") = {}
            /\ HeaderFailedAt(i) =>
                 /\ bg[i].sent = <<HeaderCall(bg[i].fut = "Eos", FALSE)>>
                 /\ bg[i].st = "Returned"
                 /\ bg[i].out = "Ok"
                 /\ ~bg[i].flush)
    /\ [][\A i \in Responders :
            (~HeaderFailedAt(i) /\ i <= Len(bg') /\ bg'[i].sent # bg[i].sent
               /\ ~Last(bg'[i].sent).ok) =>
                 /\ bg[i].st = "Respond"
                 /\ bg[i].sent = <<>>
                 /\ bg'[i].st = "Returned"]_vars

C18_Witness ==
    /\ Len(bg) = 2
    /\ bg[1].sent = <<HeaderCall(FALSE, FALSE)>>
    /\ bg[1].st = "Returned"
    /\ bg[1].out = "Ok"
    /\ bg[2].sent = <<HeaderCall(TRUE, FALSE)>>
    /\ state = "Ready"

\* Responder i can finish on its next poll, and can also stay pending.
CanFinishNow(i) ==
    /\ ENABLED (BackgroundPoll(i) /\ bg'[i].st = "Returned" /\ bg'[i].out = "Ok")
    /\ ENABLED (BackgroundPoll(i) /\ bg'[i] = bg[i])

\* A step of the connection or of the futures it waits for.
ConnectionMoved == <<ConnVars, hs, ns>>' # <<ConnVars, hs, ns>>

\* C19: whatever the responders have done, every step of the dispatch loop
\* the driver has reached can be taken, and no step of the connection touches
\* a responder that exists; whatever the connection's state and the other
\* responders' states, an unfinished responder can be polled and can finish,
\* and its step changes that responder alone. So the responders of several
\* requests in flight finish in any order.
C19_RespondersIndependent ==
    /\ []DispatchCanProceed
    /\ [](\A i \in Responders : bg[i].st \in {"Respond", "Flush"} => CanFinishNow(i))
    /\ [][ConnectionMoved =>
            /\ Len(bg') >= Len(bg)
            /\ \A i \in Responders : bg'[i] = bg[i]]_vars
    /\ [][ResponderStep =>
            /\ UNCHANGED <<ConnVars, hs, ns>>
            /\ \E i \in Responders :
                 /\ bg[i].st \in {"Respond", "Flush"}
                 /\ \A j \in Responders \ {i} : bg'[j] = bg[j]]_vars

\* The second responder finished before the first, which is still waiting for
\* its response, while the connection is about to pull the next stream.
C19_Witness ==
    /\ Len(bg) = 2
    /\ bg[1].st = "Respond"
    /\ bg[1].sent = <<>>
    /\ bg[2].st = "Returned"
    /\ bg[2].out = "Ok"
    /\ pc = "next"
    /\ state = "Ready"

\* Responders finished out of order, the last of them after the connection
\* had reached Done.
C19_WitnessAfterDone ==
    /\ state = "Done"
    /\ Len(bg) = 2
    /\ bg[1].st = "Flush"
    /\ bg[2].st = "Returned"

\* The executor refused a submission: some drive returned Error::Execute.
Rejected == \E k \in 1..Len(rets) : rets[k] = Err("Execute", "-")

\* The invocations made so far for the request in dispatch, by position.
Dispatched(op) ==
    IF \/ pc = "modify"
       \/ pc = "call" /\ op # "modify"
       \/ pc = "execute" /\ op = "execute"
    THEN accepted - 1 ELSE accepted

\* C20: whenever the connection is not in the middle of dispatching a request,
\* the streams accepted, the Modify invocations, the service.call invocations
\* and the submissions attempted are equal in number (in the middle of a
\* dispatch the steps not yet taken for that request are the only
\* difference); the responders spawned are as many, except after a rejected
\* submission, when they are one less, the connection is Done with
\* Error::Execute and the service has been handed the last request.
C20_DispatchAccounting ==
    /\ \A op \in {"modify", "call", "execute"} : n[op] = Dispatched(op)
    /\ Len(serviceSaw) = n["call"]
    /\ IF Rejected
       THEN /\ Len(bg) = n["execute"] - 1
            /\ n["execute"] = accepted
            /\ state = "Done"
            /\ Result = Err("Execute", "-")
            /\ Last(serviceSaw).id = accepted
       ELSE Len(bg) = n["execute"]

C20_Witness ==
    /\ Rejected
    /\ accepted = 2
    /\ n["modify"] = 2
    /\ n["call"] = 2
    /\ n["execute"] = 2
    /\ Len(bg) = 1
    /\ Len(serviceSaw) = 2
    /\ state = "Done"

====
